---- MODULE Spec2Model ----
(***************************************************************************)
(* A model of the STL runtime monitor of monitor_stl_2.py: the CSV loader, *)
(* the formula synthesizer, the evaluate-all-properties loop, the result   *)
(* classifier and the JSON sink, and the MonitorNode run that chains them. *)
(* The STL engine (rtamt) is an oracle: whether a formula parses and what  *)
(* an evaluation returns or raises is chosen by the environment.           *)
(***************************************************************************)
EXTENDS Integers, Sequences, FiniteSets, TLC

VARIABLES
    registry,   \* the threshold registry handed to dyn_build_formula
    data,       \* the signal map: signal name -> sequence of (time, value)
    built,      \* outcome of the last dyn_build_formula call
    csv,        \* the CSV file: [exists, headers, rows]
    loaded,     \* outcome of the last load_data_from_csv call
    oracle,     \* the STL engine's behaviour: property name -> outcome
    file,       \* the JSON result file at the output path
    run,        \* what the last MonitorNode run did
    runs,       \* number of MonitorNode runs started so far
    writers,    \* concurrent write_json callers: writer -> local state
    pc          \* position of the handler under study

vars == <<registry, data, built, csv, loaded, oracle, file, run, runs, writers, pc>>

----------------------------------------------------------------------------
(* Bounds of the model *)

NumSignals == 3
MaxRows == 2
MaxRuns == 2
MaxRecs == 1

----------------------------------------------------------------------------
(* Static configuration *)

\* properties.py: Property.headings without "time" and "device_id"
SignalNames == <<"speed", "acceleration", "x", "y", "angle">>

Rule(v, hasMin, mn, hasMax, mx) ==
    [var |-> v, hasMin |-> hasMin, min |-> mn, hasMax |-> hasMax, max |-> mx,
     scalar |-> 0]

ScalarEntry(v, n) ==
    [var |-> v, hasMin |-> FALSE, min |-> 0, hasMax |-> FALSE, max |-> 0,
     scalar |-> n]

\* the module-level threshold registry, in insertion order
stl_thresholds ==
    << Rule("speed", FALSE, 0, TRUE, 100),
       Rule("acceleration", TRUE, -20, TRUE, 20),
       Rule("x", TRUE, 0, TRUE, 600),
       Rule("y", TRUE, 0, TRUE, 500),
       Rule("angle", TRUE, 0, TRUE, 20),
       ScalarEntry("window_time", 5) >>

\* stl_thresholds.get('window_time', 5): the fallback
DefaultWindowTime == 5

----------------------------------------------------------------------------
(* The formula synthesizer: DenseSTLMonitor.dyn_build_formula.  A formula  *)
(* string is modelled as its sequence of tokens.                           *)

\* f'{var} < {rules["min"]}' and its three siblings
Pred(v, op, bound) == <<v, op, ToString(bound)>>

\* the two `continue` guards of the loop
Skipped(rule, d) == rule.var = "window_time" \/ rule.var \notin DOMAIN d

\* a variant that forgets the `var not in data` guard
ViolationsOfNoDataCheck(rule, d) ==
    IF rule.var = "window_time" THEN <<>>
    ELSE (IF rule.hasMin THEN <<Pred(rule.var, "<", rule.min)>> ELSE <<>>)
         \o (IF rule.hasMax THEN <<Pred(rule.var, ">", rule.max)>> ELSE <<>>)

\* what one registry entry appends to `violations`
ViolationsOf(rule, d) ==
    IF Skipped(rule, d) THEN <<>>
    ELSE (IF rule.hasMin THEN <<Pred(rule.var, "<", rule.min)>> ELSE <<>>)
         \o (IF rule.hasMax THEN <<Pred(rule.var, ">", rule.max)>> ELSE <<>>)

\* what one registry entry appends to `goal`
GoalOf(rule, d) ==
    IF Skipped(rule, d) THEN <<>>
    ELSE (IF rule.hasMin THEN <<Pred(rule.var, ">=", rule.min)>> ELSE <<>>)
         \o (IF rule.hasMax THEN <<Pred(rule.var, "<=", rule.max)>> ELSE <<>>)

RECURSIVE CollectViolations(_, _)
CollectViolations(reg, d) ==
    IF reg = <<>> THEN <<>>
    ELSE ViolationsOf(Head(reg), d) \o CollectViolations(Tail(reg), d)

RECURSIVE CollectGoal(_, _)
CollectGoal(reg, d) ==
    IF reg = <<>> THEN <<>>
    ELSE GoalOf(Head(reg), d) \o CollectGoal(Tail(reg), d)

\* sep.join(preds), as tokens
RECURSIVE Join(_, _)
Join(preds, sep) ==
    IF preds = <<>> THEN <<>>
    ELSE IF Len(preds) = 1 THEN Head(preds)
    ELSE Head(preds) \o <<sep>> \o Join(Tail(preds), sep)

\* stl_thresholds.get('window_time', 5)
WindowTime(reg) ==
    IF \E i \in 1..Len(reg) : reg[i].var = "window_time"
    THEN (CHOOSE e \in {reg[i] : i \in 1..Len(reg)} : e.var = "window_time").scalar
    ELSE DefaultWindowTime

\* f'out = always(({violation_formula}) implies eventually[0:{window_time}]({recovery_formula}))'
FormulaText(violation_formula, recovery_formula, window_time) ==
    <<"out", "=", "always", "(", "(">> \o violation_formula
    \o <<")", "implies", "eventually", "[", "0", ":", ToString(window_time), "]", "(">>
    \o recovery_formula \o <<")", ")">>

\* the method: it has no raise path, so it always returns a formula
dyn_build_formula(reg, d) ==
    [raised |-> FALSE,
     formula |-> FormulaText(Join(CollectViolations(reg, d), "or"),
                             Join(CollectGoal(reg, d), "and"),
                             WindowTime(reg))]

----------------------------------------------------------------------------
(* Reading a synthesized formula back: its two clauses and their predicates *)

IndexOf(f, tok) ==
    CHOOSE i \in 1..Len(f) : f[i] = tok /\ \A j \in 1..(i - 1) : f[j] # tok

\* the tokens between "always((" and ") implies"
ViolationClause(f) == SubSeq(f, 6, IndexOf(f, "implies") - 2)

\* the tokens between "eventually[0:W](" and "))"
RecoveryClause(f) == SubSeq(f, IndexOf(f, "implies") + 8, Len(f) - 2)

\* a clause is predicates of three tokens separated by one connective token
ClausePreds(c) ==
    IF c = <<>> THEN <<>>
    ELSE [i \in 1..((Len(c) + 1) \div 4) |-> SubSeq(c, 4 * i - 3, 4 * i - 1)]

ClauseSeparators(c) == {c[4 * i] : i \in 1..(Len(c) \div 4)}

SeqRange(s) == {s[i] : i \in 1..Len(s)}

----------------------------------------------------------------------------
(* Specification SpecFormula: dyn_build_formula over bounded registries    *)
(* and bounded sets of present signals.                                    *)

Signals == {SignalNames[i] : i \in 1..NumSignals}

MinChoices == {-20, 0}
MaxChoices == {100}

RuleChoices(v) ==
    {Rule(v, FALSE, 0, FALSE, 0)}
    \cup {Rule(v, TRUE, mn, FALSE, 0) : mn \in MinChoices}
    \cup {Rule(v, FALSE, 0, TRUE, mx) : mx \in MaxChoices}
    \cup {Rule(v, TRUE, mn, TRUE, mx) : mn \in MinChoices, mx \in MaxChoices}

\* registries over the first k signals, each signal present at most once
RECURSIVE RegistriesUpTo(_)
RegistriesUpTo(k) ==
    IF k = 0 THEN {<<>>}
    ELSE LET rest == RegistriesUpTo(k - 1)
         IN  rest \cup {r \o <<e>> : r \in rest, e \in RuleChoices(SignalNames[k])}

RegistryChoices ==
    LET rs == RegistriesUpTo(NumSignals)
    IN  rs \cup {r \o <<ScalarEntry("window_time", 3)>> : r \in rs}
           \cup {stl_thresholds}

\* signal maps whose samples do not matter to the synthesizer
DataChoices == {[h \in S |-> <<>>] : S \in SUBSET Signals}

NoBuild == [raised |-> FALSE, formula |-> <<>>]
NoCsv == [exists |-> FALSE, headers |-> <<>>, rows |-> <<>>]
NoLoad == [failed |-> FALSE, data |-> <<>>]
NoFile == [exists |-> FALSE, valid |-> FALSE, content |-> <<>>]
NoRun == [done |-> FALSE]

InitFormula ==
    /\ registry \in RegistryChoices
    /\ data \in DataChoices
    /\ built = NoBuild
    /\ csv = NoCsv
    /\ loaded = NoLoad
    /\ oracle = <<>>
    /\ file = NoFile
    /\ run = NoRun
    /\ runs = 0
    /\ writers = <<>>
    /\ pc = "formula_idle"

\* one call of dyn_build_formula(data)
BuildFormula ==
    /\ pc = "formula_idle"
    /\ built' = dyn_build_formula(registry, data)
    /\ pc' = "formula_built"
    /\ UNCHANGED <<registry, data, csv, loaded, oracle, file, run, runs, writers>>

NextFormula == BuildFormula

SpecFormula == InitFormula /\ [][NextFormula]_vars

\* registry entries whose signal is in the data (positions in the registry)
Matching == {i \in 1..Len(registry) :
                registry[i].var # "window_time" /\ registry[i].var \in DOMAIN data}

\* C4: when no registry signal is present in the data, the synthesizer
\* signals an error instead of returning a formula with empty clauses.
C4_NoMatchSignalsError ==
    (pc = "formula_built" /\ Matching = {}) =>
        (built.raised /\ built.formula = <<>>)

\* C6: the synthesized formula holds, for each signal in both registry and
\* data, exactly the predicates of its existing bounds and nothing else.
C6_ExactPredicates ==
    pc = "formula_built" =>
        LET viol == ClausePreds(ViolationClause(built.formula))
            goal == ClausePreds(RecoveryClause(built.formula))
            nPreds == Cardinality({i \in Matching : registry[i].hasMin})
                      + Cardinality({i \in Matching : registry[i].hasMax})
            wantViol == {<<registry[i].var, "<", ToString(registry[i].min)>> :
                            i \in {j \in Matching : registry[j].hasMin}}
                        \cup {<<registry[i].var, ">", ToString(registry[i].max)>> :
                            i \in {j \in Matching : registry[j].hasMax}}
            wantGoal == {<<registry[i].var, ">=", ToString(registry[i].min)>> :
                            i \in {j \in Matching : registry[j].hasMin}}
                        \cup {<<registry[i].var, "<=", ToString(registry[i].max)>> :
                            i \in {j \in Matching : registry[j].hasMax}}
        IN  /\ ~built.raised
            /\ SeqRange(viol) = wantViol
            /\ SeqRange(goal) = wantGoal
            /\ Len(viol) = nPreds
            /\ Len(goal) = nPreds
            /\ ClauseSeparators(ViolationClause(built.formula)) \subseteq {"or"}
            /\ ClauseSeparators(RecoveryClause(built.formula)) \subseteq {"and"}

\* a built formula with a one-sided threshold on a present signal, a
\* two-sided one on another, and a registry signal absent from the data
C6_Witness ==
    /\ pc = "formula_built"
    /\ \E i \in Matching : registry[i].hasMin /\ ~registry[i].hasMax
    /\ \E i \in Matching : registry[i].hasMin /\ registry[i].hasMax
    /\ \E i \in 1..Len(registry) :
          /\ registry[i].var # "window_time"
          /\ registry[i].var \notin DOMAIN data
          /\ registry[i].hasMax

----------------------------------------------------------------------------
(* The CSV loader: STLMonitor.load_data_from_csv.  A cell is numeric text  *)
(* (float() succeeds) or other text, the empty string included (float()    *)
(* raises ValueError); a row shorter than the header leaves its missing    *)
(* fields None (csv.DictReader's restval), on which float() raises         *)
(* TypeError.                                                              *)

Num(n) == [kind |-> "num", v |-> n]
Text == [kind |-> "text", v |-> 0]
None == [kind |-> "none", v |-> 0]

\* row[header] of the DictReader row
Field(headers, row, h) ==
    LET i == IndexOf(headers, h)
    IN  IF i <= Len(row) THEN row[i] ELSE None

IsKey(h) == h # "time"

\* the keys of `data`, in the order the header loop inserts them
DataKeys(headers) == SelectSeq(headers, IsKey)

\* the inner `for header in data` loop from key k on: "ok" when it ran to
\* the end, "value_error" or "type_error" when float() raised; d holds the
\* samples appended before that
RECURSIVE AppendRow(_, _, _, _, _, _)
AppendRow(headers, row, time, keys, k, d) ==
    IF k > Len(keys) THEN [how |-> "ok", data |-> d]
    ELSE LET cell == Field(headers, row, keys[k])
         IN  IF cell.kind = "none" THEN [how |-> "type_error", data |-> d]
             ELSE IF cell.kind = "text" THEN [how |-> "value_error", data |-> d]
             ELSE AppendRow(headers, row, time, keys, k + 1,
                            [d EXCEPT ![keys[k]] = Append(@, <<time, cell.v>>)])

\* the body of `for row in reader`: the try block of one row
LoadRow(headers, row, d) ==
    LET t == Field(headers, row, "time")
    IN  IF t.kind = "none" THEN [how |-> "type_error", data |-> d]
        ELSE IF t.kind = "text" THEN [how |-> "value_error", data |-> d]
        ELSE AppendRow(headers, row, t.v, DataKeys(headers), 1, d)

\* `for row in reader`: ValueError and KeyError skip to the next row, any
\* other exception leaves the loop for the outer handler
RECURSIVE LoadRows(_, _, _, _)
LoadRows(headers, rows, r, d) ==
    IF r > Len(rows) THEN [failed |-> FALSE, data |-> d]
    ELSE LET res == LoadRow(headers, rows[r], d)
         IN  IF res.how = "type_error" THEN [failed |-> TRUE, data |-> <<>>]
             ELSE LoadRows(headers, rows, r + 1, res.data)

\* the method: every early `return {}` and the final `return data`
load_data_from_csv(c) ==
    IF ~c.exists THEN [failed |-> TRUE, data |-> <<>>]
    ELSE IF c.headers = <<>> THEN [failed |-> TRUE, data |-> <<>>]
    ELSE IF "time" \notin SeqRange(c.headers) THEN [failed |-> TRUE, data |-> <<>>]
    ELSE LoadRows(c.headers, c.rows, 1,
                  [h \in SeqRange(DataKeys(c.headers)) |-> <<>>])

----------------------------------------------------------------------------
(* Specification SpecLoad: load_data_from_csv over bounded CSV files       *)

HeaderChoices ==
    { <<"speed", "x">>, <<"time">>, <<"time", "speed">>,
      <<"time", "speed", "x">>, <<"speed", "time", "x">> }

CellChoices == {Num(1), Num(2), Text}

\* data rows of 1..n fields
RowChoices(n) == UNION {[1..k -> CellChoices] : k \in 1..n}

RowsChoices(n) == UNION {[1..m -> RowChoices(n)] : m \in 0..MaxRows}

\* the files with a header row: every row has at most as many fields
CsvWithHeader(hs) ==
    {[exists |-> TRUE, headers |-> hs, rows |-> rs] : rs \in RowsChoices(Len(hs))}

InitLoad ==
    /\ csv \in {NoCsv, [exists |-> TRUE, headers |-> <<>>, rows |-> <<>>]}
               \cup UNION {CsvWithHeader(hs) : hs \in HeaderChoices}
    /\ loaded = NoLoad
    /\ registry = <<>>
    /\ data = <<>>
    /\ built = NoBuild
    /\ oracle = <<>>
    /\ file = NoFile
    /\ run = NoRun
    /\ runs = 0
    /\ writers = <<>>
    /\ pc = "load_idle"

\* one call of load_data_from_csv(filename)
LoadCsv ==
    /\ pc = "load_idle"
    /\ loaded' = load_data_from_csv(csv)
    /\ data' = loaded'.data
    /\ pc' = "load_done"
    /\ UNCHANGED <<registry, built, csv, oracle, file, run, runs, writers>>

NextLoad == LoadCsv

SpecLoad == InitLoad /\ [][NextLoad]_vars

\* a row all of whose fields, `time` and every signal, are numeric
ValidRow(headers, row) ==
    \A i \in 1..Len(headers) : Field(headers, row, headers[i]).kind = "num"

HasTimeColumn == csv.exists /\ "time" \in SeqRange(csv.headers)

\* C9: a row with a non-numeric or missing field is skipped as a whole and
\* the rows after it are still loaded: each signal's sequence is exactly the
\* samples of the valid rows, in order.
C9_BadRowSkippedWhole ==
    (pc = "load_done" /\ HasTimeColumn) =>
        LET IsValid(row) == ValidRow(csv.headers, row)
            valid == SelectSeq(csv.rows, IsValid)
        IN  /\ DOMAIN loaded.data = SeqRange(DataKeys(csv.headers))
            /\ \A h \in DOMAIN loaded.data :
                  loaded.data[h] =
                      [i \in 1..Len(valid) |->
                          <<Field(csv.headers, valid[i], "time").v,
                            Field(csv.headers, valid[i], h).v>>]

----------------------------------------------------------------------------
(* The property catalogue STL_PROPERTY_FORMULAS, formulas as token         *)
(* sequences, in insertion order.                                          *)

PropertyNames == <<"speed", "acc", "xpos", "all">>

Window05 == <<"[", "0", ":", "5", "]">>

STL_PROPERTY_FORMULAS ==
    [speed |->
        [id |-> 0,
         formula |-> <<"out", "=", "always", "(", "(", "(", "speed", ">", "100", ")", ")",
                       "implies", "eventually">> \o Window05
                     \o <<"(", "speed", "<=", "100", ")", ")">>],
     acc |->
        [id |-> 1,
         formula |-> <<"out", "=", "always">> \o Window05
                     \o <<"(", "acceleration", ">=", "-20", "and",
                          "acceleration", "<=", "20", ")">>],
     xpos |->
        [id |-> 2,
         formula |-> <<"out", "=", "always", "(", "(", "(", "x", "<", "0", "or",
                       "x", ">", "600", ")", ")", "implies", "eventually">> \o Window05
                     \o <<"(", "x", ">=", "0", "and", "x", "<=", "600", ")", ")">>],
     all |->
        [id |-> 3,
         formula |-> <<"out", "=", "always", "(", "(", "(", "speed", ">", "100", "or",
                       "acceleration", "<", "-20", "or", "acceleration", ">", "20", "or",
                       "x", "<", "0", "or", "x", ">", "600", ")", ")",
                       "implies", "eventually">> \o Window05
                     \o <<"(", "speed", "<=", "100", "and", "acceleration", ">=", "-20",
                          "and", "acceleration", "<=", "20", "and", "x", ">=", "0",
                          "and", "x", "<=", "600", ")", ")">>]]

----------------------------------------------------------------------------
(* The STL engine as an oracle.  For each catalogue property the           *)
(* environment fixes whether spec.parse() raises, whether spec.evaluate()  *)
(* raises, or which (timestamp, robustness) pairs it returns; and whether  *)
(* the parse inside define_spec raises.                                    *)

RobustnessChoices == {-1, 0, 1}

Sample(t, r) == [timestamp |-> t, robustness |-> r]

\* what an evaluation may return: nothing, one pair, or two pairs
ResultChoices ==
    {<<>>}
    \cup {<<Sample(0, r)>> : r \in RobustnessChoices}
    \cup {<<Sample(0, -1), Sample(1, 0)>>, <<Sample(0, 1), Sample(1, -1)>>}

OutcomeChoices ==
    {[kind |-> "parse_error", result |-> <<>>],
     [kind |-> "eval_error", result |-> <<>>]}
    \cup {[kind |-> "ok", result |-> res] : res \in ResultChoices}

OracleChoices ==
    [defineParses : BOOLEAN,
     outcome : [SeqRange(PropertyNames) -> OutcomeChoices]]

ParseCall(f) == [op |-> "parse", formula |-> f]
EvaluateCall(f) == [op |-> "evaluate", formula |-> f]

----------------------------------------------------------------------------
(* The classifier: DenseSTLMonitor.evaluate_single_prop.  JSON values are  *)
(* tagged: an object of the result store is a "record", a Python list is a *)
(* "list" with its items.                                                  *)

\* a variant with the comparison strict
StatusStrict(robustness) == IF robustness > 0 THEN "success" ELSE "violation"

\* status = "success" if robustness >= 0 else "violation"
Status(robustness) == IF robustness >= 0 THEN "success" ELSE "violation"

RobustnessRecord(sample, spec_id, vehicle_id) ==
    [type |-> "record",
     timestamp |-> sample.timestamp,
     vehicle_id |-> vehicle_id,
     stl_spec_id |-> spec_id,
     robustness |-> sample.robustness,
     status |-> Status(sample.robustness)]

List(items) == [type |-> "list", items |-> items]

\* the method: [] when the evaluation raised, else one record per pair
evaluate_single_prop(outcome, spec_id, vehicle_id) ==
    IF outcome.kind = "eval_error" THEN List(<<>>)
    ELSE List([i \in 1..Len(outcome.result) |->
                  RobustnessRecord(outcome.result[i], spec_id, vehicle_id)])

----------------------------------------------------------------------------
(* The orchestrator: DenseSTLMonitor.evaluate_all_signals.  The state of   *)
(* the loop is the accumulated results_list, the calls made to the engine, *)
(* the formula the specification holds, and whether an exception left the  *)
(* loop.                                                                   *)

\* a variant without the per-property try/except: the failure leaves the loop
PropertyStepNoIsolation(name, env, vehicle_id, acc) ==
    LET info == STL_PROPERTY_FORMULAS[name]
        outcome == env.outcome[name]
        parsed == [acc EXCEPT !.spec = info.formula,
                              !.calls = Append(@, ParseCall(info.formula))]
    IN  IF outcome.kind # "ok" THEN [parsed EXCEPT !.raised = TRUE]
        ELSE [parsed EXCEPT
                 !.calls = Append(@, EvaluateCall(info.formula)),
                 !.results_list =
                     Append(@, evaluate_single_prop(outcome, info.id, vehicle_id))]

\* one iteration of the loop body, its try/except included
PropertyStep(name, env, vehicle_id, acc) ==
    LET info == STL_PROPERTY_FORMULAS[name]
        outcome == env.outcome[name]
        parsed == [acc EXCEPT !.spec = info.formula,
                              !.calls = Append(@, ParseCall(info.formula))]
    IN  IF outcome.kind = "parse_error" THEN parsed
        ELSE [parsed EXCEPT
                 !.calls = Append(@, EvaluateCall(info.formula)),
                 !.results_list =
                     Append(@, evaluate_single_prop(outcome, info.id, vehicle_id))]

RECURSIVE EvaluateFrom(_, _, _, _)
EvaluateFrom(k, env, vehicle_id, acc) ==
    IF k > Len(PropertyNames) \/ acc.raised THEN acc
    ELSE EvaluateFrom(k + 1, env, vehicle_id,
                      PropertyStep(PropertyNames[k], env, vehicle_id, acc))

\* the method, called on a specification holding formula `spec`
evaluate_all_signals(env, vehicle_id, spec, calls) ==
    EvaluateFrom(1, env, vehicle_id,
                 [results_list |-> <<>>, calls |-> calls, spec |-> spec,
                  raised |-> FALSE])

----------------------------------------------------------------------------
(* The sink: DenseSTLMonitor.write_json                                    *)

\* a variant that never loads what the file holds
ExistingDataIgnored(f) == <<>>

\* existing_data: the array loaded from the file, [] when there is no file
ExistingData(f) == IF f.exists THEN f.content ELSE <<>>

\* the method, run alone: existing_data extended by results_list and
\* dumped to the file
write_json(f, results_list) ==
    [exists |-> TRUE, valid |-> TRUE,
     content |-> ExistingData(f) \o results_list]

----------------------------------------------------------------------------
(* The adapter's set-up: DenseSTLMonitor.define_spec                       *)

\* stl_formula is synthesized and dropped; the specification is given the
\* catalogue's "speed" formula and parsed
define_spec(reg, d, env) ==
    LET stl_formula == dyn_build_formula(reg, d)
        stl_formula2 == STL_PROPERTY_FORMULAS["speed"].formula
    IN  [built |-> stl_formula,
         spec |-> stl_formula2,
         calls |-> <<ParseCall(stl_formula2)>>,
         raised |-> ~env.defineParses]

----------------------------------------------------------------------------
(* Specification SpecRun: runs of the program, MonitorNode.__init__ with   *)
(* the dense monitor, against one output path.                             *)

RunCsvChoices ==
    { [exists |-> TRUE, headers |-> <<"speed", "x">>,
       rows |-> << <<Num(1), Num(2)>> >>],
      [exists |-> TRUE, headers |-> <<"time", "speed", "x">>,
       rows |-> << <<Num(1), Num(2), Num(1)>> >>] }

InitRun ==
    /\ csv \in RunCsvChoices
    /\ oracle \in OracleChoices
    /\ registry = stl_thresholds
    /\ file = NoFile
    /\ run = NoRun
    /\ runs = 0
    /\ loaded = NoLoad
    /\ data = <<>>
    /\ built = NoBuild
    /\ writers = <<>>
    /\ pc = "run_idle"

\* a variant that creates the output file only when there is none
ReinitialisedFileIfMissing ==
    IF file.exists THEN file ELSE [exists |-> TRUE, valid |-> TRUE, content |-> <<>>]

\* open(self.output_file_path, 'w'); json.dump([], file): whatever the
\* output file held, it now holds the empty array
ReinitialisedFile == [exists |-> TRUE, valid |-> TRUE, content |-> <<>>]

\* one run of the program: load, define_spec, evaluate_all_signals,
\* re-initialise the output file, write_json
MonitorNode ==
    /\ runs < MaxRuns
    /\ runs' = runs + 1
    /\ loaded' = load_data_from_csv(csv)
    /\ data' = loaded'.data
    /\ LET ds == define_spec(registry, data', oracle)
           ea == evaluate_all_signals(oracle, 0, ds.spec, ds.calls)
       IN  /\ built' = ds.built
           /\ IF ds.raised \/ ea.raised
              THEN /\ run' = [done |-> TRUE, crashed |-> TRUE,
                              spec_defined |-> ds.spec,
                              calls |-> IF ds.raised THEN ds.calls ELSE ea.calls,
                              results_list |-> <<>>, prev_file |-> file]
                   /\ file' = file
              ELSE /\ run' = [done |-> TRUE, crashed |-> FALSE,
                              spec_defined |-> ds.spec,
                              calls |-> ea.calls,
                              results_list |-> ea.results_list,
                              prev_file |-> file]
                   /\ file' = write_json(ReinitialisedFile, ea.results_list)
    /\ UNCHANGED <<registry, csv, oracle, writers, pc>>

NextRun == MonitorNode

SpecRun == InitRun /\ [][NextRun]_vars

Evaluated == run.done /\ ~run.crashed

\* the records held by a result list, nested lists opened
RECURSIVE RecordsIn(_)
RecordsIn(items) ==
    IF items = <<>> THEN <<>>
    ELSE (IF Head(items).type = "list" THEN Head(items).items ELSE <<Head(items)>>)
         \o RecordsIn(Tail(items))

HasCall(call) == \E i \in 1..Len(run.calls) : run.calls[i] = call

C2_FailureIsolated ==
    (run.done /\ oracle.defineParses) =>
        /\ ~run.crashed
        /\ \A k \in 1..Len(PropertyNames) :
               LET name == PropertyNames[k]
                   info == STL_PROPERTY_FORMULAS[name]
                   outcome == oracle.outcome[name]
                   IsMine(rec) == rec.stl_spec_id = info.id
                   mine == SelectSeq(RecordsIn(run.results_list), IsMine)
               IN  /\ \E i \in 2..Len(run.calls) : run.calls[i] = ParseCall(info.formula)
                   /\ outcome.kind # "parse_error" => HasCall(EvaluateCall(info.formula))
                   /\ outcome.kind # "ok" => mine = <<>>
                   /\ outcome.kind = "ok" =>
                         /\ Len(mine) = Len(outcome.result)
                         /\ \A i \in 1..Len(mine) :
                               /\ mine[i].timestamp = outcome.result[i].timestamp
                               /\ mine[i].robustness = outcome.result[i].robustness

\* the first property fails to parse, the second raises in evaluation, and
\* the two after them succeed with records
C2_Witness ==
    /\ Evaluated
    /\ oracle.outcome["speed"].kind = "parse_error"
    /\ oracle.outcome["acc"].kind = "eval_error"
    /\ oracle.outcome["xpos"].kind = "ok" /\ oracle.outcome["xpos"].result # <<>>
    /\ oracle.outcome["all"].kind = "ok" /\ oracle.outcome["all"].result # <<>>
    /\ \E i \in 1..Len(RecordsIn(run.results_list)) :
          RecordsIn(run.results_list)[i].stl_spec_id = 3

\* C3: a record's status is "success" iff its robustness is >= 0, and
\* "violation" otherwise.
C3_StatusIffNonNegative ==
    Evaluated =>
        \A i \in 1..Len(RecordsIn(run.results_list)) :
            LET rec == RecordsIn(run.results_list)[i]
            IN  /\ rec.status \in {"success", "violation"}
                /\ rec.status = "success" <=> rec.robustness >= 0

\* a record of robustness exactly 0 with status "success", beside a
\* "violation" record
C3_Witness ==
    /\ Evaluated
    /\ \E i \in 1..Len(RecordsIn(run.results_list)) :
          /\ RecordsIn(run.results_list)[i].robustness = 0
          /\ RecordsIn(run.results_list)[i].status = "success"
    /\ \E i \in 1..Len(RecordsIn(run.results_list)) :
          RecordsIn(run.results_list)[i].status = "violation"

\* C5: with no `time` column the loader returns an empty map and the run
\* skips synthesis and evaluation: the engine is asked nothing, the result
\* set is empty, the run does not crash.
C5_NoTimeColumnSkipsEvaluation ==
    (run.done /\ ~HasTimeColumn) =>
        /\ loaded.data = <<>>
        /\ run.calls = <<>>
        /\ run.results_list = <<>>
        /\ ~run.crashed

\* C7: after define_spec the specification holds the synthesized formula,
\* and every evaluation of the run is of that formula.
C7_SynthesizedFormulaIsEvaluated ==
    Evaluated =>
        /\ run.spec_defined = built.formula
        /\ \A i \in 1..Len(run.calls) :
              run.calls[i].op = "evaluate" => run.calls[i].formula = built.formula

\* C8: the accumulated result and the stored array are flat: every element
\* is one Robustness Record.
C8_FlatArrayOfRecords ==
    Evaluated =>
        /\ \A i \in 1..Len(run.results_list) : run.results_list[i].type = "record"
        /\ \A i \in 1..Len(file.content) : file.content[i].type = "record"

----------------------------------------------------------------------------
(* Specification SpecConc: two processes in write_json on one path.  The   *)
(* method's steps are the os.path.exists test, the json.load of the file,  *)
(* the open(..., 'w') that empties it, and the json.dump written at close. *)
(* A file emptied and not yet written holds no JSON (valid = FALSE): a     *)
(* json.load of it raises.  A dump over bytes another process wrote after  *)
(* this process opened the file leaves that process's tail behind when it  *)
(* is longer, which is no JSON either; lengths are counted in records.     *)

Writers == {1, 2}

OldRecord == RobustnessRecord(Sample(0, 1), 0, 0)

FileChoices ==
    {NoFile,
     [exists |-> TRUE, valid |-> TRUE, content |-> <<>>],
     [exists |-> TRUE, valid |-> TRUE, content |-> <<OldRecord>>]}

\* the records a writer brings: up to MaxRecs records tagged with its id
WriterResults(w) ==
    UNION {{[i \in 1..n |-> RobustnessRecord(Sample(i - 1, r[i]), 0, w)] :
               r \in [1..n -> {-1, 0}]} : n \in 0..MaxRecs}

InitConc ==
    /\ file \in FileChoices
    /\ run = [done |-> FALSE, prev_file |-> file]
    /\ writers \in {[w \in Writers |->
                       [pc |-> "start", existed |-> FALSE, existing_data |-> <<>>,
                        results_list |-> rs[w], read_at |-> 0, clobbered |-> 0]] :
                    rs \in [Writers -> UNION {WriterResults(w) : w \in Writers}]}
    /\ \A w \in Writers : writers[w].results_list \in WriterResults(w)
    /\ registry = <<>>
    /\ data = <<>>
    /\ built = NoBuild
    /\ csv = NoCsv
    /\ loaded = NoLoad
    /\ oracle = <<>>
    /\ runs = 0
    /\ pc = "writers"

\* how many writers have opened the file for writing so far
Opened == Cardinality({w \in Writers : writers[w].pc \in {"opened", "done"}})

\* if os.path.exists(output_file)
WExists(w) ==
    /\ writers[w].pc = "start"
    /\ writers' = [writers EXCEPT ![w].pc = "checked", ![w].existed = file.exists]
    /\ UNCHANGED <<registry, data, built, csv, loaded, oracle, file, run, runs, pc>>

\* existing_data = json.load(file), or [] in the else branch; a file that
\* holds no JSON makes json.load raise, and the exception leaves write_json
WLoad(w) ==
    /\ writers[w].pc = "checked"
    /\ writers' =
          IF writers[w].existed /\ ~file.valid
          THEN [writers EXCEPT ![w].pc = "crashed"]
          ELSE [writers EXCEPT
                   ![w].pc = "loaded",
                   ![w].read_at = Opened,
                   ![w].existing_data =
                       IF writers[w].existed THEN ExistingData(file) ELSE <<>>]
    /\ UNCHANGED <<registry, data, built, csv, loaded, oracle, file, run, runs, pc>>

\* existing_data.extend(results_list); open(output_file, 'w')
WOpen(w) ==
    /\ writers[w].pc = "loaded"
    /\ writers' = [writers EXCEPT
                      ![w].pc = "opened",
                      ![w].clobbered = 0,
                      ![w].existing_data = @ \o writers[w].results_list]
    /\ file' = [exists |-> TRUE, valid |-> FALSE, content |-> <<>>]
    /\ UNCHANGED <<registry, data, built, csv, loaded, oracle, run, runs, pc>>

\* json.dump(existing_data, file) and the close that writes it
WDump(w) ==
    /\ writers[w].pc = "opened"
    /\ LET mine == writers[w].existing_data
       IN  /\ file' = IF writers[w].clobbered > Len(mine)
                      THEN [exists |-> TRUE, valid |-> FALSE, content |-> <<>>]
                      ELSE [exists |-> TRUE, valid |-> TRUE, content |-> mine]
           /\ writers' =
                 [o \in Writers |->
                     IF o = w THEN [writers[o] EXCEPT !.pc = "done"]
                     ELSE IF writers[o].pc = "opened" /\ writers[o].clobbered < Len(mine)
                          THEN [writers[o] EXCEPT !.clobbered = Len(mine)]
                          ELSE writers[o]]
    /\ UNCHANGED <<registry, data, built, csv, loaded, oracle, run, runs, pc>>

NextConc == \E w \in Writers : WExists(w) \/ WLoad(w) \/ WOpen(w) \/ WDump(w)

SpecConc == InitConc /\ [][NextConc]_vars

AllDone == \A w \in Writers : writers[w].pc = "done"

\* both writers read the existing array before either rewrote the file
BothReadFirst == \A w \in Writers : writers[w].pc # "start" /\ writers[w].read_at = 0

HoldsRecordOf(content, w) ==
    \E i \in 1..Len(content) : content[i].vehicle_id = w

\* C10: write_json is not atomic.  Whenever both writers read the existing
\* array before either rewrites the file and both finish, the file is what
\* was there before extended by the records of one writer only: the other
\* writer's records are lost.
C10_LostUpdate ==
    (AllDone /\ BothReadFirst /\ file.valid) =>
        \E w \in Writers :
            /\ file.content = run.prev_file.content \o writers[w].results_list
            /\ \A o \in Writers \ {w} : ~HoldsRecordOf(file.content, o)

\* the lost update happens: both read first, both finished, both brought
\* records, the file held a record before, and it lacks writer 1's records
C10_Witness ==
    /\ AllDone /\ BothReadFirst /\ file.valid
    /\ \A w \in Writers : writers[w].results_list # <<>>
    /\ run.prev_file.content # <<>>
    /\ ~HoldsRecordOf(file.content, 1)
    /\ HoldsRecordOf(file.content, 2)

====
